---- MODULE Spec2Model ----
(***************************************************************************)
(* State-machine model of demos/openssl-enc.c (LibTomCrypt): the           *)
(* OpenSSL "enc" compatible file encryptor/decryptor.                      *)
(*                                                                         *)
(* Files are byte sequences, a FILE stream is a record (open, position,    *)
(* end-of-file indicator, error indicator).  The library primitives the    *)
(* demo calls (padding_pad, padding_depad, cbc_*, pkcs_5_alg1_openssl,     *)
(* base16_decode) are modelled from their contracts; the block cipher and  *)
(* the hash are small keyed functions standing for AES and MD5.            *)
(***************************************************************************)
EXTENDS Integers, Sequences, FiniteSets, TLC

(***************************************************************************)
(* Bounds of the explored inputs.                                          *)
(***************************************************************************)
\* input lengths are CHUNK*k + block_length*b + r with k \in 0..MaxChunks,
\* b \in 0..MaxBlocks, r \in -MaxTail..MaxTail
MaxChunks == 2
MaxBlocks == 1
MaxTail == 1

(***************************************************************************)
(* Program constants.                                                      *)
(***************************************************************************)
KEY_LENGTH == 32
IV_LENGTH == 16
SALT_LENGTH == 8
\* sizeof(inbuf.unpad): the size of one read
CHUNK == 1024
\* aes_desc.block_length
block_length == 16
\* one cipher block of head room in union paddable
MAXBLOCKSIZE == 16
\* sizeof(buf->pad)
PadCapacity == CHUNK + MAXBLOCKSIZE
\* 'S' 'a' 'l' 't' 'e' 'd' '_' '_'
salt_header == <<83, 97, 108, 116, 101, 100, 95, 95>>

Byte == 0..255

(***************************************************************************)
(* Sequence helpers.                                                       *)
(***************************************************************************)
Min(a, b) == IF a < b THEN a ELSE b
Take(s, n) == SubSeq(s, 1, n)
Drop(s, n) == SubSeq(s, n + 1, Len(s))
Fill(n, v) == [i \in 1..n |-> v]
Zeros(n) == Fill(n, 0)

\* bitwise exclusive or of two bytes, through a 16 x 16 nibble table
RECURSIVE XorBits(_, _, _)
XorBits(a, b, w) ==
  IF w = 0 THEN 0
  ELSE (((a % 2) + (b % 2)) % 2) + 2 * XorBits(a \div 2, b \div 2, w - 1)
NibbleXor == [a \in 0..15 |-> [b \in 0..15 |-> XorBits(a, b, 4)]]
Xor(a, b) == 16 * NibbleXor[a \div 16][b \div 16] + NibbleXor[a % 16][b % 16]

(***************************************************************************)
(* PKCS#7 padding (padding_pad / padding_depad).                           *)
(***************************************************************************)
\* number of padding bytes for n data bytes: always in 1..bl
PadCount(n, bl) == bl - (n % bl)

\* pad the first n bytes of data inside a buffer of capacity cap
padding_pad(data, n, cap, bl) ==
  LET p == PadCount(n, bl) IN
  IF n + p > cap
  THEN [err |-> "CRYPT_BUFFER_OVERFLOW", length |-> n + p, data |-> data]
  ELSE [err |-> "CRYPT_OK", length |-> n + p, data |-> Take(data, n) \o Fill(p, p)]

\* strict PKCS#7 validation of data[1..n], n > 0
padding_depad(data, n) ==
  LET p == data[n] IN
  IF p = 0 \/ p > n
  THEN [err |-> "CRYPT_INVALID_ARG", length |-> n]
  ELSE IF \E i \in (n - p + 1)..n : data[i] # p
       THEN [err |-> "CRYPT_INVALID_PACKET", length |-> n]
       ELSE [err |-> "CRYPT_OK", length |-> n - p]

\* a variant of s_pkcs7_pad that takes sizeof(buf->unpad) as the capacity
s_pkcs7_pad_small(buf, nbytes, bl, is_padding) ==
  IF is_padding
  THEN LET r == padding_pad(buf, nbytes, CHUNK, bl) IN
       IF r.err # "CRYPT_OK" THEN [length |-> 0, buf |-> buf]
       ELSE [length |-> r.length, buf |-> r.data]
  ELSE LET r == padding_depad(buf, nbytes) IN
       IF r.err # "CRYPT_OK" THEN [length |-> 0, buf |-> buf]
       ELSE [length |-> r.length, buf |-> buf]

\* s_pkcs7_pad: returns the new length, 0 on failure
s_pkcs7_pad(buf, nbytes, bl, is_padding) ==
  IF is_padding
  THEN LET r == padding_pad(buf, nbytes, PadCapacity, bl) IN
       IF r.err # "CRYPT_OK" THEN [length |-> 0, buf |-> buf]
       ELSE [length |-> r.length, buf |-> r.data]
  ELSE LET r == padding_depad(buf, nbytes) IN
       IF r.err # "CRYPT_OK" THEN [length |-> 0, buf |-> buf]
       ELSE [length |-> r.length, buf |-> buf]

(***************************************************************************)
(* Block cipher and CBC mode.                                              *)
(***************************************************************************)
\* keyed bijection on 16-byte blocks standing for AES-256: add the key
\* bytes and rotate the block by one position
EncryptBlock(key, blk) ==
  [i \in 1..block_length |->
     LET j == (i % block_length) + 1 IN (blk[j] + key[j] + key[j + block_length]) % 256]
DecryptBlock(key, blk) ==
  [j \in 1..block_length |->
     LET i == ((j + block_length - 2) % block_length) + 1 IN
     (blk[i] + 512 - key[j] - key[j + block_length]) % 256]

\* CBC encryption of whole blocks, block after block; the cipher block and
\* the remaining plaintext of each step are bound as values before the next
\* step takes them
RECURSIVE CbcEncRun(_, _, _, _)
CbcEncRun(key, prev, pt, acc) ==
  IF pt = <<>> THEN [ct |-> acc, iv |-> prev]
  ELSE CHOOSE r \in {CbcEncRun(key, c, rest, acc \o c) :
                       c \in {<<>> \o EncryptBlock(key, [i \in 1..block_length |-> Xor(pt[i], prev[i])])},
                       rest \in {Drop(pt, block_length)}} : TRUE

\* the same, taking the blocks in runs of block_length blocks
RECURSIVE CbcEncBlocks(_, _, _, _)
CbcEncBlocks(key, prev, pt, acc) ==
  IF pt = <<>> THEN [ct |-> acc, iv |-> prev]
  ELSE CHOOSE t \in {CbcEncBlocks(key, r.iv, rest, acc \o r.ct) :
                       r \in {CbcEncRun(key, prev, Take(pt, Min(Len(pt), block_length * block_length)), <<>>)},
                       rest \in {Drop(pt, Min(Len(pt), block_length * block_length))}} : TRUE

\* CBC decryption of whole blocks: every plaintext block depends on its own
\* and on the previous ciphertext block only
CbcDecBlocks(key, prev, ct) ==
  LET nblk == Len(ct) \div block_length
      dec == [b \in 1..nblk |->
                DecryptBlock(key, SubSeq(ct, block_length * (b - 1) + 1, block_length * b))]
  IN [pt |-> [i \in 1..Len(ct) |->
                LET b == ((i - 1) \div block_length) + 1
                    j == ((i - 1) % block_length) + 1
                IN Xor(dec[b][j], IF b = 1 THEN prev[j] ELSE ct[i - block_length])],
      iv |-> IF nblk = 0 THEN prev ELSE SubSeq(ct, Len(ct) - block_length + 1, Len(ct))]

\* cbc_encrypt(pt, ct, len, &cbc): whole blocks only; the chaining value
\* becomes the last ciphertext block
cbc_encrypt(pt, len, state) ==
  IF len % block_length # 0
  THEN [err |-> "CRYPT_INVALID_ARG", out |-> <<>>, cbc |-> state]
  ELSE LET r == CbcEncBlocks(state.key, state.iv, Take(pt, len), <<>>) IN
       [err |-> "CRYPT_OK", out |-> r.ct, cbc |-> [state EXCEPT !.iv = r.iv]]

cbc_decrypt(ct, len, state) ==
  IF len % block_length # 0
  THEN [err |-> "CRYPT_INVALID_ARG", out |-> <<>>, cbc |-> state]
  ELSE LET r == CbcDecBlocks(state.key, state.iv, Take(ct, len)) IN
       [err |-> "CRYPT_OK", out |-> r.pt, cbc |-> [state EXCEPT !.iv = r.iv]]

(***************************************************************************)
(* Key derivation (pkcs_5_alg1_openssl, one round).                        *)
(***************************************************************************)
RECURSIVE Digest(_, _)
Digest(bytes, h) ==
  IF bytes = <<>> THEN h
  ELSE Digest(Tail(bytes), (h * 31 + Head(bytes) + 7) % 251)

\* deterministic function of (passphrase, salt) giving KEY_LENGTH + IV_LENGTH bytes
pkcs_5_alg1_openssl(pass, saltBytes) ==
  LET h == Digest(pass \o saltBytes, 1) IN
  [i \in 1..(KEY_LENGTH + IV_LENGTH) |-> (h + (h + 3) * i) % 256]

(***************************************************************************)
(* The container format: "Salted__" | salt | CBC(plaintext | padding).     *)
(***************************************************************************)
Header(saltBytes) == salt_header \o saltBytes

Container(plain, pass, saltBytes) ==
  LET kv == pkcs_5_alg1_openssl(pass, saltBytes)
      padded == padding_pad(plain, Len(plain), Len(plain) + block_length, block_length).data
      st == [key |-> Take(kv, KEY_LENGTH), iv |-> Drop(kv, KEY_LENGTH)]
  IN Header(saltBytes) \o cbc_encrypt(padded, Len(padded), st).out

(***************************************************************************)
(* C streams.                                                              *)
(***************************************************************************)
NullStream == [open |-> FALSE, pos |-> 0, eof |-> FALSE, err |-> FALSE]
OpenStream == [open |-> TRUE, pos |-> 0, eof |-> FALSE, err |-> FALSE]

\* byte counts a failing read may still deliver (always short of want)
ErrCounts(want, avail) == {n \in {0, block_length} : n < want /\ n <= avail}

\* fread(buf, 1, want, stream) on a file: the set of possible outcomes.
\* A read that is cut short by the end of the file sets the end-of-file
\* indicator; a read that gets all it asked for does not, even when it
\* stops exactly at the end.  A failing read sets the error indicator.
fread(stream, file, want) ==
  LET avail == Len(file) - stream.pos
      n == Min(want, avail)
  IN {[n |-> n, data |-> SubSeq(file, stream.pos + 1, stream.pos + n), failed |-> FALSE,
       stream |-> [stream EXCEPT !.pos = stream.pos + n, !.eof = stream.eof \/ n < want]]}
     \cup
     {[n |-> k, data |-> SubSeq(file, stream.pos + 1, stream.pos + k), failed |-> TRUE,
       stream |-> [stream EXCEPT !.pos = stream.pos + k, !.err = TRUE]]
        : k \in ErrCounts(want, avail)}

\* fwrite(buf, 1, n, stream): the set of possible outcomes, the bytes that
\* reached the file and the count returned
fwrite(bytes) ==
  {[n |-> Len(bytes), written |-> bytes, failed |-> FALSE]}
  \cup {[n |-> k, written |-> Take(bytes, k), failed |-> TRUE] : k \in {0, Len(bytes) \div 2}}

\* exit(n) as seen by the parent process
ExitCode(n) == n % 256

(***************************************************************************)
(* parse_openssl_header                                                    *)
(***************************************************************************)
\* a variant that reads the 16 bytes without comparing the magic
ParseWithoutMagic(stream, file, out) ==
  UNION {
    IF r1.n # SALT_LENGTH
    THEN {[err |-> "CRYPT_ERROR", stream |-> r1.stream, out |-> out, failed |-> r1.failed]}
    ELSE {IF r2.n # SALT_LENGTH
          THEN [err |-> "CRYPT_ERROR", stream |-> r2.stream, out |-> out, failed |-> r2.failed]
          ELSE [err |-> "CRYPT_OK", stream |-> r2.stream, out |-> r2.data, failed |-> FALSE]
            : r2 \in fread(r1.stream, file, SALT_LENGTH)}
    : r1 \in fread(stream, file, SALT_LENGTH)}

\* the set of possible outcomes: result code, stream afterwards, salt out
parse_openssl_header(stream, file, out) ==
  UNION {
    IF r1.n # SALT_LENGTH
    THEN {[err |-> "CRYPT_ERROR", stream |-> r1.stream, out |-> out, failed |-> r1.failed]}
    ELSE IF r1.data # salt_header
    THEN {[err |-> "CRYPT_ERROR", stream |-> r1.stream, out |-> out, failed |-> FALSE]}
    ELSE {IF r2.n # SALT_LENGTH
          THEN [err |-> "CRYPT_ERROR", stream |-> r2.stream, out |-> out, failed |-> r2.failed]
          ELSE [err |-> "CRYPT_OK", stream |-> r2.stream, out |-> r2.data, failed |-> FALSE]
            : r2 \in fread(r1.stream, file, SALT_LENGTH)}
    : r1 \in fread(stream, file, SALT_LENGTH)}

(***************************************************************************)
(* base16_decode                                                           *)
(***************************************************************************)
\* a command-line character is a hex digit value 0..15, or NotHex
NotHex == 16

\* decodes pairs of hex digits into out while there is room for them
base16_decode(str, out, outlen) ==
  LET cnt == Min(Len(str) \div 2, outlen) IN
  IF Len(str) % 2 = 1 THEN [err |-> "CRYPT_INVALID_PACKET", out |-> out, outlen |-> outlen]
  ELSE IF \E i \in 1..(2 * cnt) : str[i] = NotHex
  THEN [err |-> "CRYPT_INVALID_PACKET", out |-> out, outlen |-> outlen]
  ELSE [err |-> "CRYPT_OK", outlen |-> cnt,
        out |-> [i \in 1..Len(out) |->
                   IF i <= cnt THEN 16 * str[2 * i - 1] + str[2 * i] ELSE out[i]]]

\* the hex string of a byte sequence
Hex(bytes) == [i \in 1..(2 * Len(bytes)) |->
                 IF i % 2 = 1 THEN bytes[(i + 1) \div 2] \div 16 ELSE bytes[i \div 2] % 16]

(***************************************************************************)
(* Explored inputs.                                                        *)
(***************************************************************************)
Lens == {n \in {CHUNK * k + block_length * b + r :
                  k \in 0..MaxChunks, b \in 0..MaxBlocks, r \in (0 - MaxTail)..MaxTail} : n >= 0}
SmallLens == {n \in Lens : n < CHUNK - MaxTail}

\* "ramp": varying bytes; "ones": every byte 1, so that the data itself
\* ends like a padding of one byte
Kinds == {"ramp", "ones"}
Plain(kind, n) == [i \in 1..n |-> IF kind = "ramp" THEN (7 * i + 3) % 256 ELSE 1]

\* "foobar" and "x"
PassA == <<102, 111, 111, 98, 97, 114>>
PassB == <<120>>
SaltA == Zeros(SALT_LENGTH)
SaltB == <<1, 2, 3, 4, 5, 6, 7, 8>>
Salts == {SaltA, SaltB}
\* what the stack may hold where salt[] is allocated
Garbage == {Fill(SALT_LENGTH, 170), Fill(SALT_LENGTH, 85)}
NoSalt == <<>>
SaltArgs == {Hex(SaltA), Hex(SaltB), Take(Hex(SaltB), 4), Take(Hex(SaltB), 3),
             Hex(SaltB) \o <<0, 1>>, <<NotHex>> \o Take(Hex(SaltB), 15)}

Input(c, n, file, pl, w, pass, sarg, g, ex) ==
  [cmd |-> c, argc |-> n, inFile |-> file, plain |-> pl, wf |-> w, pass |-> pass,
   saltArg |-> sarg, garbage |-> g, inExists |-> ex]

G0 == Fill(SALT_LENGTH, 170)

EncInputs ==
  {Input("enc", 5, Plain(k, n), Plain(k, n), FALSE, PassA, NoSalt, G0, TRUE)
     : k \in Kinds, n \in Lens}
  \cup {Input("enc", 6, Plain("ramp", n), Plain("ramp", n), FALSE, PassB, sa, g, TRUE)
     : n \in {0, block_length + MaxTail}, sa \in SaltArgs, g \in Garbage}

\* a well-formed container loses bytes, or has one byte changed
Truncated(file) == {Take(file, m) : m \in {n \in {0, 7, 8, 15, 16, 17, Len(file) - 1} : n < Len(file)}}
Flipped(file, i) == [file EXCEPT ![i] = (file[i] + 1) % 256]

DecInputs ==
  {Input("dec", 5, Container(Plain(k, n), PassA, SaltB), Plain(k, n), TRUE, PassA, NoSalt, G0, TRUE)
     : k \in Kinds, n \in Lens}
  \cup {Input("dec", 5, Container(Plain(k, n), PassA, SaltB), Plain(k, n), FALSE, PassB, NoSalt, G0, TRUE)
     : k \in Kinds, n \in SmallLens}
  \cup {Input("dec", 5, f, <<>>, FALSE, PassA, NoSalt, G0, TRUE)
     : f \in UNION {Truncated(Container(Plain("ramp", n), PassA, SaltA)) : n \in SmallLens}}
  \cup {Input("dec", 5, Flipped(Container(Plain("ramp", n), PassA, SaltA), i), <<>>, FALSE, PassA, NoSalt, G0, TRUE)
     : n \in {0, block_length + MaxTail}, i \in {1, 8, 2 * SALT_LENGTH + block_length}}
  \cup {Input("dec", 6, Drop(Container(Plain("ramp", n), PassA, SaltB), h), Plain("ramp", n), FALSE, PassA, sa, g, TRUE)
     : n \in {0, block_length + MaxTail}, h \in {0, 2 * SALT_LENGTH},
       sa \in {Hex(SaltB), Take(Hex(SaltB), 4)}, g \in Garbage}

BadInputs ==
  {Input(c, n, Plain("ramp", 1), <<>>, FALSE, PassA, NoSalt, G0, ex)
     : c \in {"enc", "dec", "-h", "encode", "x"}, n \in {2, 4, 5, 7}, ex \in BOOLEAN}

Inputs == EncInputs \cup DecInputs \cup BadInputs

(***************************************************************************)
(* State.                                                                  *)
(***************************************************************************)
VARIABLES
  argc, cmd, passArg, saltArg,   \* argc, argv[1], argv[4], argv[5]
  inExists, inFile,              \* the file at argv[2]
  outDisk, outBytes,             \* the path argv[3] ("old", "new", "absent") and the bytes written to outfd
  infd, outfd,                   \* the two streams
  encrypt, salt, saltlen, keyiv, \* locals of main
  cbc, nb, inbuf, outbuf, ret,   \* locals of do_crypt, and its return value
  pc, exitStatus, errMsg,        \* control point, exit status, barf's message
  run, plain, wf,                \* history: run number, the plaintext behind the input, input is a well-formed container opened with its passphrase
  faulted,                       \* history: an I/O or library failure was injected
  kdfSalt, hdrWrites,            \* history: salt given to key derivation, header writes so far
  log, outAtRead                 \* history: one record per loop iteration of do_crypt; outBytes at the last read

argV == <<argc, cmd, passArg, saltArg, inExists, inFile>>
histV == <<run, plain, wf>>
cryptV == <<cbc, nb, inbuf, outbuf, ret, log, outAtRead>>
vars == <<argc, cmd, passArg, saltArg, inExists, inFile, outDisk, outBytes, infd, outfd,
          encrypt, salt, saltlen, keyiv, cbc, nb, inbuf, outbuf, ret, pc, exitStatus, errMsg,
          run, plain, wf, faulted, kdfSalt, hdrWrites, log, outAtRead>>

\* strncmp(argv[1], "enc", 3) == 0, strncmp(argv[1], "dec", 3) == 0, strstr(argv[1], "-h")
IsEnc(c) == c \in {"enc", "encode"}
IsDec(c) == c \in {"dec"}
IsHelp(c) == c \in {"-h"}

\* what the stack holds where keyiv[] is allocated
KeyivGarbage == Fill(KEY_LENGTH + IV_LENGTH, 204)
NoCbc == [key |-> <<>>, iv |-> <<>>]

Init ==
  \E inp \in Inputs :
    /\ argc = inp.argc /\ cmd = inp.cmd /\ passArg = inp.pass /\ saltArg = inp.saltArg
    /\ inExists = inp.inExists /\ inFile = inp.inFile
    /\ outDisk = "old" /\ outBytes = <<>>
    /\ infd = NullStream /\ outfd = NullStream
    /\ encrypt = -1 /\ salt = inp.garbage /\ saltlen = SALT_LENGTH /\ keyiv = KeyivGarbage
    /\ cbc = NoCbc /\ nb = 0 /\ inbuf = <<>> /\ outbuf = <<>> /\ ret = "none"
    /\ pc = "main" /\ exitStatus = -1 /\ errMsg = "none"
    /\ run = 1 /\ plain = inp.plain /\ wf = inp.wf
    /\ faulted = FALSE /\ kdfSalt = <<>> /\ hdrWrites = 0
    /\ log = <<>> /\ outAtRead = <<>>

(***************************************************************************)
(* barf and the BARF macro.                                                *)
(***************************************************************************)
\* barf(pname, err): exit(err == NULL ? 0 : -1)
barf(msg) == /\ pc' = "exit"
             /\ errMsg' = msg
             /\ exitStatus' = ExitCode(IF msg = "None" THEN 0 ELSE -1)

\* a variant of BARF that closes the streams and leaves the output file
BARFKeepsOutput(msg, inS, outS) ==
  /\ infd' = [inS EXCEPT !.open = FALSE]
  /\ outfd' = [outS EXCEPT !.open = FALSE]
  /\ outDisk' = outDisk
  /\ barf(msg)

\* BARF(a) with the streams as they are at the call: close what is open,
\* remove the output file if it was opened, then barf
BARF(msg, inS, outS) ==
  /\ infd' = [inS EXCEPT !.open = FALSE]
  /\ outfd' = [outS EXCEPT !.open = FALSE]
  /\ outDisk' = IF outS.open THEN "absent" ELSE outDisk
  /\ barf(msg)

(***************************************************************************)
(* main, up to the call of do_crypt.                                       *)
(***************************************************************************)
CheckArgs ==
  /\ pc = "main"
  /\ IF argc > 1 /\ IsHelp(cmd)
     THEN /\ barf("None")
          /\ UNCHANGED <<infd, outfd, outDisk, encrypt>>
     ELSE IF argc < 5 \/ argc > 6
     THEN BARF("Invalid number of arguments", infd, outfd) /\ UNCHANGED encrypt
     ELSE IF IsEnc(cmd)
     THEN encrypt' = 1 /\ pc' = "open" /\ UNCHANGED <<infd, outfd, outDisk, errMsg, exitStatus>>
     ELSE IF IsDec(cmd)
     THEN encrypt' = 0 /\ pc' = "open" /\ UNCHANGED <<infd, outfd, outDisk, errMsg, exitStatus>>
     ELSE BARF("Bad command name", infd, outfd) /\ UNCHANGED encrypt
  /\ UNCHANGED <<argV, histV, cryptV, outBytes, salt, saltlen, keyiv, faulted, kdfSalt, hdrWrites>>

OpenFiles ==
  /\ pc = "open"
  /\ \E outOk \in BOOLEAN :
       /\ faulted' = (faulted \/ (inExists /\ ~outOk))
       /\ IF ~inExists
          THEN BARF("Could not open infile", NullStream, outfd) /\ UNCHANGED outBytes
          ELSE IF ~outOk
          THEN BARF("Could not open outfile", OpenStream, outfd) /\ UNCHANGED outBytes
          ELSE /\ infd' = OpenStream /\ outfd' = OpenStream
               /\ outDisk' = "new" /\ outBytes' = <<>>
               /\ pc' = "salt" /\ UNCHANGED <<errMsg, exitStatus>>
  /\ UNCHANGED <<argV, histV, cryptV, encrypt, salt, saltlen, keyiv, kdfSalt, hdrWrites>>

\* rng_get_bytes(salt, sizeof(salt), NULL): the bytes delivered, or a failure
rng_get_bytes == [ok : {TRUE}, bytes : Salts] \cup [ok : {FALSE}, bytes : {<<>>}]

GetSalt ==
  /\ pc = "salt"
  /\ IF argc = 6
     THEN LET r == base16_decode(saltArg, salt, saltlen) IN
          /\ UNCHANGED faulted
          /\ IF r.err # "CRYPT_OK"
             THEN BARF("Bad user-specified salt", infd, outfd) /\ UNCHANGED <<salt, saltlen>>
             ELSE /\ salt' = r.out /\ saltlen' = r.outlen /\ pc' = "hash"
                  /\ UNCHANGED <<infd, outfd, outDisk, errMsg, exitStatus>>
     ELSE IF encrypt # 0
     THEN \E r \in rng_get_bytes :
          /\ faulted' = (faulted \/ ~r.ok)
          /\ IF ~r.ok
             THEN BARF("Not enough random data", infd, outfd) /\ UNCHANGED <<salt, saltlen>>
             ELSE /\ salt' = r.bytes /\ pc' = "hash"
                  /\ UNCHANGED <<saltlen, infd, outfd, outDisk, errMsg, exitStatus>>
     ELSE \E r \in parse_openssl_header(infd, inFile, salt) :
          /\ faulted' = (faulted \/ r.failed)
          /\ IF r.err # "CRYPT_OK"
             THEN BARF("Invalid OpenSSL header in infile", r.stream, outfd) /\ UNCHANGED <<salt, saltlen>>
             ELSE /\ salt' = r.out /\ infd' = r.stream /\ pc' = "hash"
                  /\ UNCHANGED <<saltlen, outfd, outDisk, errMsg, exitStatus>>
  /\ UNCHANGED <<argV, histV, cryptV, outBytes, encrypt, keyiv, kdfSalt, hdrWrites>>

\* register_hash(&md5_desc), zeromem(keyiv), pass = argv[4]
InitKey ==
  /\ pc = "hash"
  /\ \E hashOk \in BOOLEAN :
       /\ faulted' = (faulted \/ ~hashOk)
       /\ IF ~hashOk
          THEN BARF("Could not register MD5 hash", infd, outfd) /\ UNCHANGED keyiv
          ELSE /\ keyiv' = Zeros(KEY_LENGTH + IV_LENGTH) /\ pc' = "derive"
               /\ UNCHANGED <<infd, outfd, outDisk, errMsg, exitStatus>>
  /\ UNCHANGED <<argV, histV, cryptV, outBytes, encrypt, salt, saltlen, kdfSalt, hdrWrites>>

DeriveKey ==
  /\ pc = "derive"
  /\ \E kdfOk \in BOOLEAN :
       /\ faulted' = (faulted \/ ~kdfOk)
       /\ kdfSalt' = salt
       /\ IF ~kdfOk
          THEN BARF("Could not derive key/iv from passphrase", infd, outfd) /\ UNCHANGED keyiv
          ELSE /\ keyiv' = pkcs_5_alg1_openssl(passArg, salt) /\ pc' = "header"
               /\ UNCHANGED <<infd, outfd, outDisk, errMsg, exitStatus>>
  /\ UNCHANGED <<argV, histV, cryptV, outBytes, encrypt, salt, saltlen, hdrWrites>>

\* a variant that writes the salt before the magic
WriteHeaderSwapped ==
  /\ pc = "header"
  /\ IF IsEnc(cmd)
     THEN /\ hdrWrites' = hdrWrites + 1
          /\ outBytes' = outBytes \o salt \o salt_header
     ELSE UNCHANGED <<hdrWrites, outBytes>>
  /\ pc' = "crypt"
  /\ UNCHANGED <<faulted, infd, outfd, outDisk, errMsg, exitStatus>>
  /\ UNCHANGED <<argV, histV, cryptV, encrypt, salt, saltlen, keyiv, kdfSalt>>

WriteHeader ==
  /\ pc = "header"
  /\ IF IsEnc(cmd)
     THEN \E w1 \in fwrite(salt_header), w2 \in fwrite(salt) :
          /\ hdrWrites' = hdrWrites + 1
          /\ IF w1.n # Len(salt_header)
             THEN /\ outBytes' = outBytes \o w1.written /\ faulted' = TRUE
                  /\ BARF("Error writing salt header to outfile", infd, outfd)
             ELSE IF w2.n # Len(salt)
             THEN /\ outBytes' = outBytes \o w1.written \o w2.written /\ faulted' = TRUE
                  /\ BARF("Error writing salt to outfile", infd, outfd)
             ELSE /\ outBytes' = outBytes \o w1.written \o w2.written /\ pc' = "crypt"
                  /\ UNCHANGED <<faulted, infd, outfd, outDisk, errMsg, exitStatus>>
     ELSE /\ pc' = "crypt"
          /\ UNCHANGED <<hdrWrites, outBytes, faulted, infd, outfd, outDisk, errMsg, exitStatus>>
  /\ UNCHANGED <<argV, histV, cryptV, encrypt, salt, saltlen, keyiv, kdfSalt>>

(***************************************************************************)
(* do_crypt                                                                *)
(***************************************************************************)
\* one record of the history per loop iteration
Iter(n, atEof, failed) == [rd |-> n, eof |-> atEof, err |-> failed, padop |-> FALSE, wr |-> -1]

\* register_cipher(&aes_desc) and cbc_start(cipher, iv, key, KEY_LENGTH, 0, &cbc)
CryptStart ==
  /\ pc = "crypt"
  /\ \E lib \in {"ok", "no_cipher", "bad_start"} :
       /\ faulted' = (faulted \/ lib # "ok")
       /\ IF lib = "no_cipher"
          THEN ret' = "CRYPT_INVALID_CIPHER" /\ pc' = "crypt_ret" /\ UNCHANGED cbc
          ELSE IF lib = "bad_start"
          THEN ret' = "-1" /\ pc' = "crypt_ret" /\ UNCHANGED cbc
          ELSE /\ cbc' = [key |-> Take(keyiv, KEY_LENGTH), iv |-> Drop(keyiv, KEY_LENGTH)]
               /\ pc' = "read" /\ UNCHANGED ret
  /\ UNCHANGED <<argV, histV, outDisk, outBytes, infd, outfd, encrypt, salt, saltlen, keyiv,
                 nb, inbuf, outbuf, exitStatus, errMsg, kdfSalt, hdrWrites, log, outAtRead>>

\* a mode-blind variant: a read of nothing ends the run well in both modes
ZeroReadAlwaysOk(enc) == "CRYPT_OK"

\* if(!nb) return encrypt ? CRYPT_OK : CRYPT_ERROR;
ZeroReadResult(enc) == IF enc # 0 THEN "CRYPT_OK" ELSE "CRYPT_ERROR"

\* a read that asks for more bytes than union paddable holds
ReadSizeTooBig == 2 * PadCapacity
\* sizeof(inbuf.unpad), the size argument of the fread in do_crypt
ReadSize == CHUNK

\* nb = fread(inbuf.unpad, 1, sizeof(inbuf.unpad), infd); if(!nb) ...; if(ferror(infd)) ...
ReadChunk ==
  /\ pc = "read"
  /\ \E r \in fread(infd, inFile, ReadSize) :
       /\ nb' = r.n /\ inbuf' = r.data /\ infd' = r.stream
       /\ faulted' = (faulted \/ r.failed)
       /\ log' = Append(log, Iter(r.n, r.stream.eof, r.stream.err))
       /\ outAtRead' = outBytes
       /\ IF r.n = 0
          THEN ret' = ZeroReadResult(encrypt) /\ pc' = "crypt_ret"
          ELSE IF r.stream.err
          THEN ret' = "CRYPT_ERROR" /\ pc' = "crypt_ret"
          ELSE pc' = "transform" /\ UNCHANGED ret
  /\ UNCHANGED <<argV, histV, outDisk, outBytes, outfd, encrypt, salt, saltlen, keyiv,
                 cbc, outbuf, exitStatus, errMsg, kdfSalt, hdrWrites>>

\* if(nb == 0) return CRYPT_ERROR;  "The file didn't decrypt correctly"
UnpadFailResult == "CRYPT_ERROR"

\* the history record of the current iteration, after a pad/unpad call
Padded(l) == [l EXCEPT ![Len(l)].padop = TRUE]

\* encrypt: pad (at end of file) then cbc_encrypt;
\* decrypt: cbc_decrypt then unpad (at end of file)
Transform ==
  /\ pc = "transform"
  /\ IF encrypt # 0
     THEN LET p == IF infd.eof THEN s_pkcs7_pad(inbuf, nb, block_length, TRUE)
                   ELSE [length |-> nb, buf |-> inbuf]
              e == cbc_encrypt(p.buf, p.length, cbc)
          IN /\ nb' = p.length /\ inbuf' = p.buf
             /\ log' = IF infd.eof THEN Padded(log) ELSE log
             /\ IF e.err # "CRYPT_OK"
                THEN ret' = e.err /\ pc' = "crypt_ret" /\ UNCHANGED <<outbuf, cbc>>
                ELSE outbuf' = e.out /\ cbc' = e.cbc /\ pc' = "write" /\ UNCHANGED ret
     ELSE LET d == cbc_decrypt(inbuf, nb, cbc) IN
          IF d.err # "CRYPT_OK"
          THEN ret' = d.err /\ pc' = "crypt_ret" /\ UNCHANGED <<outbuf, cbc, nb, inbuf, log>>
          ELSE LET u == IF infd.eof THEN s_pkcs7_pad(d.out, nb, block_length, FALSE)
                        ELSE [length |-> nb, buf |-> d.out]
               IN /\ outbuf' = d.out /\ cbc' = d.cbc /\ nb' = u.length
                  /\ log' = IF infd.eof THEN Padded(log) ELSE log
                  /\ UNCHANGED inbuf
                  /\ IF u.length = 0
                     THEN ret' = UnpadFailResult /\ pc' = "crypt_ret"
                     ELSE pc' = "write" /\ UNCHANGED ret
  /\ UNCHANGED <<argV, histV, outDisk, outBytes, infd, outfd, encrypt, salt, saltlen, keyiv,
                 exitStatus, errMsg, faulted, kdfSalt, hdrWrites, outAtRead>>

\* a loop that goes on whatever the stream says
LoopAlways(stream) == TRUE
\* } while(!feof(infd));
LoopAgain(stream) == ~stream.eof

\* fwrite(outbuf.unpad, 1, nb, outfd) != nb, then the loop test and cbc_done
WriteChunk ==
  /\ pc = "write"
  /\ \E w \in fwrite(Take(outbuf, nb)) :
       /\ outBytes' = outBytes \o w.written
       /\ faulted' = (faulted \/ w.failed)
       /\ log' = [log EXCEPT ![Len(log)].wr = w.n]
       /\ IF w.n # nb
          THEN ret' = "CRYPT_ERROR" /\ pc' = "crypt_ret"
          ELSE IF LoopAgain(infd)
          THEN pc' = "read" /\ UNCHANGED ret
          ELSE ret' = "CRYPT_OK" /\ pc' = "crypt_ret"
  /\ UNCHANGED <<argV, histV, outDisk, infd, outfd, encrypt, salt, saltlen, keyiv,
                 cbc, nb, inbuf, outbuf, exitStatus, errMsg, kdfSalt, hdrWrites, outAtRead>>

(***************************************************************************)
(* main, after do_crypt.                                                   *)
(***************************************************************************)
Finish ==
  /\ pc = "crypt_ret"
  /\ IF ret # "CRYPT_OK"
     THEN BARF("Error during crypt operation", infd, outfd)
     ELSE /\ infd' = [infd EXCEPT !.open = FALSE]
          /\ outfd' = [outfd EXCEPT !.open = FALSE]
          /\ pc' = "exit" /\ exitStatus' = ExitCode(0)
          /\ UNCHANGED <<outDisk, errMsg>>
  /\ UNCHANGED <<argV, histV, cryptV, outBytes, encrypt, salt, saltlen, keyiv,
                 faulted, kdfSalt, hdrWrites>>

(***************************************************************************)
(* A second run: decrypt what a successful enc run wrote, with the same    *)
(* passphrase and no salt argument.                                        *)
(***************************************************************************)
Redecrypt ==
  /\ pc = "exit" /\ run = 1 /\ IsEnc(cmd) /\ exitStatus = 0 /\ outDisk = "new"
  /\ argc' = 5 /\ cmd' = "dec" /\ saltArg' = NoSalt /\ inFile' = outBytes
  /\ UNCHANGED <<passArg, inExists>>
  /\ outDisk' = "old" /\ outBytes' = <<>>
  /\ infd' = NullStream /\ outfd' = NullStream
  /\ encrypt' = -1 /\ salt' = G0 /\ saltlen' = SALT_LENGTH /\ keyiv' = KeyivGarbage
  /\ cbc' = NoCbc /\ nb' = 0 /\ inbuf' = <<>> /\ outbuf' = <<>> /\ ret' = "none"
  /\ pc' = "main" /\ exitStatus' = -1 /\ errMsg' = "none"
  /\ run' = 2 /\ plain' = inFile /\ wf' = FALSE
  /\ kdfSalt' = <<>> /\ hdrWrites' = 0
  /\ log' = <<>> /\ outAtRead' = <<>>
  /\ UNCHANGED faulted

(***************************************************************************)
(* A second run of the other kind: decrypt what a successful enc run with  *)
(* a salt argument wrote, with the same passphrase and the same salt       *)
(* argument.                                                               *)
(***************************************************************************)
RedecryptSameSalt ==
  /\ pc = "exit" /\ run = 1 /\ IsEnc(cmd) /\ argc = 6 /\ exitStatus = 0 /\ outDisk = "new"
  /\ cmd' = "dec" /\ inFile' = outBytes
  /\ UNCHANGED <<argc, passArg, saltArg, inExists>>
  /\ outDisk' = "old" /\ outBytes' = <<>>
  /\ infd' = NullStream /\ outfd' = NullStream
  /\ encrypt' = -1 /\ salt' = G0 /\ saltlen' = SALT_LENGTH /\ keyiv' = KeyivGarbage
  /\ cbc' = NoCbc /\ nb' = 0 /\ inbuf' = <<>> /\ outbuf' = <<>> /\ ret' = "none"
  /\ pc' = "main" /\ exitStatus' = -1 /\ errMsg' = "none"
  /\ run' = 3 /\ plain' = inFile /\ wf' = FALSE
  /\ kdfSalt' = <<>> /\ hdrWrites' = 0
  /\ log' = <<>> /\ outAtRead' = <<>>
  /\ UNCHANGED faulted

Next ==
  \/ CheckArgs
  \/ OpenFiles
  \/ GetSalt
  \/ InitKey
  \/ DeriveKey
  \/ WriteHeader
  \/ CryptStart
  \/ ReadChunk
  \/ Transform
  \/ WriteChunk
  \/ Finish
  \/ Redecrypt
  \/ RedecryptSameSalt

Spec == Init /\ [][Next]_vars

(***************************************************************************)
(* Properties.                                                             *)
(***************************************************************************)
HeaderLen == Len(salt_header) + SALT_LENGTH
LastIter == log[Len(log)]

\* C1: round trip -- a dec run on the file a successful enc run produced,
\* with the same passphrase and the salt read from the header, succeeds and
\* writes exactly the plaintext of the enc run (no I/O or library failure).
C1_RoundTrip ==
  (run = 2 /\ pc = "exit" /\ ~faulted) => (exitStatus = 0 /\ outDisk = "new" /\ outBytes = plain)

\* C2: a dec run with the right passphrase on a well-formed container
\* (header, then the CBC ciphertext of plaintext and PKCS#7 padding) succeeds
\* and writes exactly the plaintext, whatever the ciphertext length.
C2_DecryptAcceptsWellFormed ==
  (run = 1 /\ IsDec(cmd) /\ wf /\ pc = "exit" /\ ~faulted)
    => (exitStatus = 0 /\ outDisk = "new" /\ outBytes = plain)

\* C3: a successful enc run on L bytes writes the 16-byte header followed
\* by exactly 16 * (L div 16 + 1) bytes of ciphertext.
C3_EncryptOutputLength ==
  (run = 1 /\ IsEnc(cmd) /\ pc = "exit" /\ exitStatus = 0 /\ ~faulted)
    => Len(outBytes) = HeaderLen + block_length * ((Len(inFile) \div block_length) + 1)

\* C4: when do_crypt returns success, exactly one pad/unpad call was made, it
\* was made on the last non-empty chunk read, and every earlier chunk was
\* written with the length it was read with.
C4_OnePadOnLastChunk ==
  (pc = "crypt_ret" /\ ret = "CRYPT_OK" /\ ~faulted)
    => LET pads == {i \in DOMAIN log : log[i].padop}
           nonEmpty == {i \in DOMAIN log : log[i].rd > 0}
       IN /\ Cardinality(pads) = 1
          /\ \A i \in pads : i \in nonEmpty /\ \A j \in nonEmpty : j <= i
          /\ \A i \in pads : \A j \in 1..(i - 1) : log[j].wr = log[j].rd

\* C5: when a read of do_crypt ends with the error indicator set, do_crypt
\* returns a failure code and nothing was written after that read.
C5_ReadErrorIsFatal ==
  (pc = "crypt_ret" /\ log # <<>> /\ LastIter.err)
    => (ret # "CRYPT_OK" /\ outBytes = outAtRead)

\* C6: at every exit taken after keyiv was initialised, the 48 bytes of
\* keyiv are all zero.
C6_KeyMaterialErased ==
  (pc = "exit" /\ keyiv # KeyivGarbage) => keyiv = Zeros(KEY_LENGTH + IV_LENGTH)

\* C7: in decrypt mode a read of zero bytes makes do_crypt return an error,
\* and every successful return of do_crypt in decrypt mode follows an unpad
\* call on a non-empty chunk that was read at end of file.
C7_DecryptEndsThroughUnpad ==
  (encrypt = 0 /\ pc = "crypt_ret")
    => /\ (log # <<>> /\ LastIter.rd = 0) => ret # "CRYPT_OK"
       /\ ret = "CRYPT_OK" => (log # <<>> /\ LastIter.rd > 0 /\ LastIter.eof /\ LastIter.padop)

\* a decrypt run whose read returned nothing, and do_crypt returned an error
C7_Witness ==
  encrypt = 0 /\ pc = "crypt_ret" /\ log # <<>> /\ LastIter.rd = 0 /\ ret = "CRYPT_ERROR"

\* the header of the input was parsed and accepted / parsed and rejected
HeaderAccepted == encrypt = 0 /\ argc = 5 /\ pc = "hash"
HeaderRejected == errMsg = "Invalid OpenSSL header in infile"

\* C8: parse_openssl_header succeeds only on at least 16 bytes that start
\* with the magic, and then delivers bytes 8..15 as the salt; it fails only
\* if fewer than 16 bytes are there or the magic differs (or the read failed).
C8_HeaderParse ==
  /\ HeaderAccepted => /\ Len(inFile) >= HeaderLen
                       /\ Take(inFile, Len(salt_header)) = salt_header
                       /\ salt = SubSeq(inFile, Len(salt_header) + 1, HeaderLen)
  /\ (HeaderRejected /\ ~faulted)
       => (Len(inFile) < HeaderLen \/ Take(inFile, Len(salt_header)) # salt_header)

\* an accepted header whose salt replaced what salt[] held before
C8_Witness ==
  HeaderAccepted /\ salt = SaltB /\ inFile = Header(SaltB) \o Drop(inFile, HeaderLen)

\* C9: on a source of at least 16 bytes parse_openssl_header advances the
\* read position by 16, when it accepts the header and when it rejects it.
C9_HeaderConsumes16 ==
  ((HeaderAccepted \/ HeaderRejected) /\ Len(inFile) >= HeaderLen /\ ~faulted)
    => infd.pos = HeaderLen

\* C10: in an enc run the output starts with the magic followed by the salt
\* that was given to key derivation, the header is written once, and it is
\* there before do_crypt writes anything; an output shorter than the header
\* exists only in a run that failed writing it and removed the file.
C10_HeaderFirstAndOnce ==
  IsEnc(cmd) =>
    /\ hdrWrites <= 1
    /\ outBytes # <<>> =>
         /\ hdrWrites = 1 /\ kdfSalt = salt
         /\ LET m == Min(HeaderLen, Len(outBytes)) IN Take(outBytes, m) = Take(Header(kdfSalt), m)
         /\ Len(outBytes) < HeaderLen => (pc = "exit" /\ outDisk = "absent")
    /\ pc \in {"crypt", "read", "transform", "write", "crypt_ret"} =>
         (hdrWrites = 1 /\ Len(outBytes) >= HeaderLen)

\* an enc run that has written ciphertext after its header
C10_Witness ==
  IsEnc(cmd) /\ pc = "crypt_ret" /\ ret = "CRYPT_OK"
    /\ Len(outBytes) > HeaderLen /\ Take(outBytes, HeaderLen) = Header(SaltB)

\* C11: a salt argument is accepted only if it is exactly 16 hex characters
\* that decode to 8 bytes; with any other length the run does not get
\* past the salt step.
C11_SaltArgExactly16Hex ==
  (argc = 6 /\ pc = "hash") => (Len(saltArg) = 2 * SALT_LENGTH /\ saltlen = SALT_LENGTH)

\* C12: a step that ends the run in failure while the output stream is open
\* closes it and removes the output file; a step that ends the run in
\* failure before the output stream was opened leaves the output path as
\* it was.
C12_FailedRunRemovesOutput ==
  [][(pc # "exit" /\ pc' = "exit" /\ exitStatus' # 0) =>
       IF outfd.open THEN (outDisk' = "absent" /\ ~outfd'.open)
       ELSE (outDisk' = outDisk /\ outDisk = "old")]_vars

\* a failed run that had written part of its output, and removed the file
C12_Witness ==
  pc = "exit" /\ exitStatus # 0 /\ outBytes # <<>> /\ outDisk = "absent"

\* C13: the process exits with status 0 exactly when the run succeeded: a
\* run in which an argument, file, salt, header, derivation, write, read,
\* cipher or padding failure happened exits with a non-zero status.
C13_ExitZeroIffSuccess ==
  (run = 1 /\ pc = "exit")
    => (exitStatus = 0 <=> (~faulted /\ errMsg \in {"none", "None"}))

\* the last read of do_crypt failed, or its last write came short
IoFailed ==
  log # <<>> /\ (LastIter.err \/ (LastIter.wr # -1 /\ LastIter.wr # nb))

\* C14: do_crypt never reports a read or write failure with the value it
\* returns when unpad rejects the final chunk.
C14_IoAndPaddingFailuresDiffer ==
  (pc = "crypt_ret" /\ IoFailed) => ret # UnpadFailResult


(***************************************************************************)
(* s_pkcs7_pad on its own: pad a buffer of every length a chunk can have,  *)
(* then unpad the result.                                                  *)
(***************************************************************************)
PadLens == 0..CHUNK

PadInit ==
  \E kind \in Kinds, n \in PadLens :
    /\ argc = 5 /\ cmd = "enc" /\ passArg = PassA /\ saltArg = NoSalt
    /\ inExists = TRUE /\ inFile = <<>>
    /\ outDisk = "old" /\ outBytes = <<>>
    /\ infd = NullStream /\ outfd = NullStream
    /\ encrypt = 1 /\ salt = G0 /\ saltlen = SALT_LENGTH /\ keyiv = KeyivGarbage
    /\ cbc = NoCbc /\ nb = n /\ inbuf = Plain(kind, n) /\ outbuf = <<>> /\ ret = "none"
    /\ pc = "pad" /\ exitStatus = -1 /\ errMsg = "none"
    /\ run = 1 /\ plain = Plain(kind, n) /\ wf = FALSE
    /\ faulted = FALSE /\ kdfSalt = <<>> /\ hdrWrites = 0
    /\ log = <<>> /\ outAtRead = <<>>

padFixed == <<argc, cmd, passArg, saltArg, inExists, inFile, outDisk, outBytes, infd, outfd,
              encrypt, salt, saltlen, keyiv, cbc, outbuf, ret, exitStatus, errMsg,
              run, plain, wf, faulted, kdfSalt, hdrWrites, log, outAtRead>>

\* nb = s_pkcs7_pad(&inbuf, nb, cipher_descriptor[cipher].block_length, 1)
PadStep ==
  /\ pc = "pad"
  /\ LET r == s_pkcs7_pad(inbuf, nb, block_length, TRUE) IN
       nb' = r.length /\ inbuf' = r.buf
  /\ pc' = "unpad"
  /\ UNCHANGED padFixed

\* nb = s_pkcs7_pad(&buf, nb, cipher_descriptor[cipher].block_length, 0)
UnpadStep ==
  /\ pc = "unpad" /\ nb > 0
  /\ LET r == s_pkcs7_pad(inbuf, nb, block_length, FALSE) IN
       nb' = r.length /\ inbuf' = r.buf
  /\ pc' = "unpadded"
  /\ UNCHANGED padFixed

PadNext == PadStep \/ UnpadStep

PadSpec == PadInit /\ [][PadNext]_vars

\* C15: s_pkcs7_pad with block length 16 pads n bytes, 0 <= n <= 1024, to
\* n + p bytes with 1 <= p <= 16 and n + p a multiple of 16, the padding
\* bytes all being p, and unpadding the padded buffer returns n with the
\* first n bytes unchanged.
C15_PaddingLaw ==
  LET n == Len(plain) IN
  /\ pc = "unpad" =>
       /\ nb - n \in 1..block_length
       /\ nb % block_length = 0
       /\ Len(inbuf) = nb
       /\ Take(inbuf, n) = plain
       /\ \A i \in (n + 1)..nb : inbuf[i] = nb - n
  /\ pc = "unpadded" => (nb = n /\ Take(inbuf, n) = plain)

C15_Witness ==
  pc = "unpadded" /\ Len(plain) = CHUNK /\ nb = CHUNK /\ Len(inbuf) = PadCapacity


\* C17: when the last chunk of a dec run deciphers to n validly padded
\* bytes with padding count p (and no read or write fails), do_crypt
\* returns success and has written n - p bytes of that chunk, also when
\* p = n and the chunk holds nothing but padding.
C17_ValidPaddingSucceeds ==
  (/\ pc = "crypt_ret" /\ encrypt = 0 /\ log # <<>> /\ LastIter.padop /\ ~IoFailed
   /\ padding_depad(outbuf, LastIter.rd).err = "CRYPT_OK")
    => (ret = "CRYPT_OK" /\ LastIter.wr = LastIter.rd - outbuf[LastIter.rd])


\* C19: in every iteration of do_crypt the bytes read into the input
\* buffer, handed to the CBC primitive, held in the output buffer and
\* written to the output number at most 1024 + MAXBLOCKSIZE, the size of
\* union paddable, also on the iteration where padding grows the chunk.
C19_BufferBound ==
  /\ nb <= PadCapacity
  /\ Len(inbuf) <= PadCapacity
  /\ Len(outbuf) <= PadCapacity
  /\ \A i \in DOMAIN log : log[i].rd <= PadCapacity /\ log[i].wr <= PadCapacity

C19_Witness ==
  /\ pc = "crypt_ret" /\ encrypt # 0 /\ Len(log) > 1 /\ LastIter.padop
  /\ LastIter.rd = CHUNK - 1 /\ nb = CHUNK /\ Len(outbuf) = CHUNK /\ LastIter.wr = CHUNK


(***************************************************************************)
(* The program is one sequential process: it takes its next step as long   *)
(* as it has one.                                                          *)
(***************************************************************************)
FairSpec == Spec /\ WF_vars(Next)

InDoCrypt == pc \in {"crypt", "read", "transform", "write"}

\* C20: do_crypt, once entered, returns; every iteration either consumes
\* at least one input byte or returns; once end-of-file has been seen on
\* infd no further iteration starts.
C20_Termination ==
  /\ InDoCrypt ~> (pc = "crypt_ret")
  /\ [][pc = "read" => (infd'.pos > infd.pos \/ pc' = "crypt_ret")]_vars
  /\ [][(InDoCrypt /\ infd.eof) => pc' # "read"]_vars

C20_Witness ==
  pc = "crypt_ret" /\ Len(log) >= 3 /\ LastIter.eof /\ ret = "CRYPT_OK"


\* C21: a dec run given the passphrase and the salt argument (16 hex
\* digits) of a successful enc run, on the file that enc run wrote, succeeds
\* and writes exactly the plaintext of the enc run (no I/O or library
\* failure).
C21_ExplicitSaltRoundTrip ==
  (run = 3 /\ pc = "exit" /\ ~faulted /\ Len(saltArg) = 2 * SALT_LENGTH /\ saltlen = SALT_LENGTH)
    => (exitStatus = 0 /\ outDisk = "new" /\ outBytes = plain)

====
